---- MODULE Spec2Model ----
(***************************************************************************)
(* Model of MQPL.py: a project aggregate (Projet) owning a task list, a    *)
(* team, risks, milestones and a change log, which notifies every team     *)
(* member after each mutation through a pluggable strategy, and which      *)
(* computes a critical path over the tasks' dependency graph.              *)
(*                                                                         *)
(* Tache objects live on a heap: object k is the k-th Tache constructed.   *)
(* Dates are day numbers, so (date_fin - date_debut).days is a difference. *)
(***************************************************************************)
EXTENDS Integers, Sequences, FiniteSets

\* ---------------------------------------------------------------- bounds
\* Specification Spec: the aggregate and its notifications.
MaxObjets      == 1    \* Tache objects constructed
MaxTaches      == 2    \* entries of Projet.taches
MaxMembres     == 2    \* entries of Equipe.membres
MaxRisques     == 2    \* entries of Projet.risques
MaxJalons      == 2    \* entries of Projet.jalons
MaxChangements == 2    \* entries of Projet.changements
\* Specification SpecCalcul: the critical path next to the notifications.
CalculMaxObjets == 2   \* Tache objects constructed
CalculMaxTaches == 2   \* entries of Projet.taches
\* Specification SpecGraphe: the dependency graph and the critical path.
GrapheMaxObjets == 3   \* Tache objects constructed
GrapheMaxDeps   == 2   \* entries of one task's dependances list
GrapheMaxTaches == 2   \* entries of Projet.taches
MaxJour         == 2   \* latest day number used for date_fin

\* ---------------------------------------------------------------- inputs
None         == "None"
Membres      == {"Brahim", "Pape"}
Strategies   == {"Email", "SMS"}
Budgets      == {50000}
Risques      == {"Retard de livraison"}
Jalons       == {"Phase 1"}
Descriptions == {"portee"}
\* (date_debut, date_fin) pairs given to the Tache constructor.
Spans        == {<<0, f>> : f \in 0..MaxJour}
UnJour       == {<<0, 1>>}

VARIABLES
    date_debut,            \* Tache.date_debut, per object
    date_fin,              \* Tache.date_fin, per object
    dependances,           \* Tache.dependances, per object
    taches,                \* Projet.taches
    membres,               \* Projet.equipe.membres
    risques,               \* Projet.risques
    jalons,                \* Projet.jalons
    budget,                \* Projet.budget
    version,               \* Projet.version
    changements,           \* Projet.changements
    chemin_critique,       \* Projet.chemin_critique
    notification_context,  \* strategy of Projet.notification_context, or None
    sortie,                \* envoyer_message invocations of the last call
    exception              \* exception raised by the last call, or None

tas      == <<date_debut, date_fin, dependances>>
projet   == <<taches, membres, risques, jalons, budget, version, changements,
              chemin_critique, notification_context>>
vars     == <<tas, projet, sortie, exception>>

Objets == DOMAIN dependances

\* ------------------------------------------------------------ notification
\* NotificationContext.notifier: one envoyer_message per recipient, in order.
ContextNotifier(strategy, message, destinataires) ==
    [i \in 1..Len(destinataires) |->
        [strategy |-> strategy, message |-> message,
         destinataire |-> destinataires[i]]]

\* notifier with an email context standing in while none was set.
notifier_email_par_defaut(ctx, message, destinataires) ==
    ContextNotifier(IF ctx # None THEN ctx ELSE "Email", message, destinataires)

\* Projet.notifier: nothing is sent while no context exists.
notifier(ctx, message, destinataires) ==
    IF ctx # None THEN ContextNotifier(ctx, message, destinataires) ELSE <<>>

\* ---------------------------------------------------------- critical path
Jours(t) == date_fin[t] - date_debut[t]

\* The outcome of a call of find_longest_path: the memo table as the call
\* leaves it, the returned pair, and whether the recursion never returned.
Retour(memo, res) == [memo |-> memo, res |-> res, boucle |-> FALSE]
SansFin(memo)     == [memo |-> memo, res |-> <<0, <<>>>>, boucle |-> TRUE]

RECURSIVE find_longest_path(_, _, _)
RECURSIVE ParcoursDeps(_, _, _, _, _, _)

\* The for loop over tache.dependances from index i on.
ParcoursDeps(tache, i, memo, max_length, max_path, pile) ==
    IF i > Len(dependances[tache])
    THEN LET total_length == max_length + Jours(tache)
             res == <<total_length, Append(max_path, tache)>>
         IN  Retour([x \in DOMAIN memo \cup {tache} |->
                        IF x = tache THEN res ELSE memo[x]], res)
    ELSE LET r == find_longest_path(dependances[tache][i], memo, pile)
         IN  IF r.boucle THEN r
             ELSE IF r.res[1] > max_length
                  THEN ParcoursDeps(tache, i + 1, r.memo, r.res[1], r.res[2], pile)
                  ELSE ParcoursDeps(tache, i + 1, r.memo, max_length, max_path, pile)

\* pile is the set of tasks whose call is in progress.  A call on a task of
\* pile finds no memo entry and repeats the calls that led to it, so the
\* recursion never returns (Python ends it with RecursionError).
find_longest_path(tache, memo, pile) ==
    IF tache \in DOMAIN memo THEN Retour(memo, memo[tache])
    ELSE IF tache \in pile THEN SansFin(memo)
    ELSE IF dependances[tache] = <<>>
         THEN LET res == <<0, <<tache>>>>
              IN  Retour([x \in DOMAIN memo \cup {tache} |->
                            IF x = tache THEN res ELSE memo[x]], res)
         ELSE ParcoursDeps(tache, 1, memo, 0, <<>>, pile \cup {tache})

\* The list comprehension over self.taches from index i on, sharing memo.
RECURSIVE AllPaths(_, _, _)
AllPaths(i, memo, acc) ==
    IF i > Len(taches) THEN [paths |-> acc, boucle |-> FALSE]
    ELSE LET r == find_longest_path(taches[i], memo, {})
         IN  IF r.boucle THEN [paths |-> acc, boucle |-> TRUE]
             ELSE AllPaths(i + 1, r.memo, Append(acc, r.res))

\* max(all_paths, key=lambda x: x[0]): the first element with the largest key.
MaxParCle(all_paths) ==
    LET i == CHOOSE i \in 1..Len(all_paths) :
                 /\ \A j \in 1..Len(all_paths) : all_paths[j][1] <= all_paths[i][1]
                 /\ \A j \in 1..(i - 1) : all_paths[j][1] < all_paths[i][1]
    IN  all_paths[i]

\* ------------------------------------------------------------------- Init
Init ==
    /\ date_debut = <<>>
    /\ date_fin = <<>>
    /\ dependances = <<>>
    /\ taches = <<>>
    /\ membres = <<>>
    /\ risques = <<>>
    /\ jalons = <<>>
    /\ budget = 0
    /\ version = 1
    /\ changements = <<>>
    /\ chemin_critique = <<>>
    /\ notification_context = None
    /\ sortie = <<>>
    /\ exception = None

\* What every call that completes leaves behind.
Fin(envois) ==
    /\ exception' = None
    /\ sortie' = envois

\* ---------------------------------------------------------------- actions
\* Tache(...): a new object with the given span and dependances.
Tache(span, deps) ==
    /\ date_debut' = Append(date_debut, span[1])
    /\ date_fin' = Append(date_fin, span[2])
    /\ dependances' = Append(dependances, deps)
    /\ Fin(<<>>)
    /\ UNCHANGED projet

ajouter_dependance(t, tache) ==
    /\ dependances' = [dependances EXCEPT ![t] = Append(@, tache)]
    /\ Fin(<<>>)
    /\ UNCHANGED <<date_debut, date_fin, projet>>

set_notification_strategy(strategy) ==
    /\ notification_context' = strategy
    /\ Fin(<<>>)
    /\ UNCHANGED <<tas, taches, membres, risques, jalons, budget, version,
                   changements, chemin_critique>>

ajouter_tache(tache) ==
    /\ taches' = Append(taches, tache)
    /\ Fin(notifier(notification_context, [type |-> "tache", tache |-> tache], membres))
    /\ UNCHANGED <<tas, membres, risques, jalons, budget, version, changements,
                   chemin_critique, notification_context>>

\* ajouter_membre_equipe notifying before it appends.
ajouter_membre_equipe_notifie_avant(membre) ==
    /\ membres' = Append(membres, membre)
    /\ Fin(notifier(notification_context, [type |-> "membre", membre |-> membre], membres))
    /\ UNCHANGED <<tas, taches, risques, jalons, budget, version, changements,
                   chemin_critique, notification_context>>

ajouter_membre_equipe(membre) ==
    /\ membres' = Append(membres, membre)
    /\ Fin(notifier(notification_context, [type |-> "membre", membre |-> membre], membres'))
    /\ UNCHANGED <<tas, taches, risques, jalons, budget, version, changements,
                   chemin_critique, notification_context>>

definir_budget(b) ==
    /\ budget' = b
    /\ Fin(notifier(notification_context, [type |-> "budget", budget |-> budget'], membres))
    /\ UNCHANGED <<tas, taches, membres, risques, jalons, version, changements,
                   chemin_critique, notification_context>>

ajouter_risque(risque) ==
    /\ risques' = Append(risques, risque)
    /\ Fin(notifier(notification_context, [type |-> "risque", risque |-> risque], membres))
    /\ UNCHANGED <<tas, taches, membres, jalons, budget, version, changements,
                   chemin_critique, notification_context>>

\* ajouter_jalon assigning a fresh list instead of appending.
ajouter_jalon_remplace(jalon) ==
    /\ jalons' = <<jalon>>
    /\ Fin(notifier(notification_context, [type |-> "jalon", jalon |-> jalon], membres))
    /\ UNCHANGED <<tas, taches, membres, risques, budget, version, changements,
                   chemin_critique, notification_context>>

ajouter_jalon(jalon) ==
    /\ jalons' = Append(jalons, jalon)
    /\ Fin(notifier(notification_context, [type |-> "jalon", jalon |-> jalon], membres))
    /\ UNCHANGED <<tas, taches, membres, risques, budget, version, changements,
                   chemin_critique, notification_context>>

\* enregistrer_changement incrementing before it creates the Changement.
enregistrer_changement_incremente_avant(description) ==
    /\ version' = version + 1
    /\ changements' = Append(changements,
                             [description |-> description, version |-> version'])
    /\ Fin(notifier(notification_context,
                    [type |-> "changement", description |-> description,
                     version |-> version'], membres))
    /\ UNCHANGED <<tas, taches, membres, risques, jalons, budget,
                   chemin_critique, notification_context>>

enregistrer_changement(description) ==
    /\ changements' = Append(changements,
                             [description |-> description, version |-> version])
    /\ version' = version + 1
    /\ Fin(notifier(notification_context,
                    [type |-> "changement", description |-> description,
                     version |-> version'], membres))
    /\ UNCHANGED <<tas, taches, membres, risques, jalons, budget,
                   chemin_critique, notification_context>>

\* calculer_chemin_critique extending the cached path instead of replacing it.
calculer_chemin_critique_fusionne ==
    LET r == AllPaths(1, <<>>, <<>>)
    IN  /\ sortie' = <<>>
        /\ IF r.boucle
           THEN /\ exception' = "RecursionError"
                /\ UNCHANGED chemin_critique
           ELSE IF r.paths = <<>>
           THEN /\ exception' = "ValueError"
                /\ UNCHANGED chemin_critique
           ELSE /\ exception' = None
                /\ chemin_critique' = chemin_critique \o MaxParCle(r.paths)[2]
        /\ UNCHANGED <<tas, taches, membres, risques, jalons, budget, version,
                       changements, notification_context>>

calculer_chemin_critique ==
    LET r == AllPaths(1, <<>>, <<>>)
    IN  /\ sortie' = <<>>
        /\ IF r.boucle
           THEN /\ exception' = "RecursionError"
                /\ UNCHANGED chemin_critique
           ELSE IF r.paths = <<>>
           THEN /\ exception' = "ValueError"
                /\ UNCHANGED chemin_critique
           ELSE /\ exception' = None
                /\ chemin_critique' = MaxParCle(r.paths)[2]
        /\ UNCHANGED <<tas, taches, membres, risques, jalons, budget, version,
                       changements, notification_context>>

\* ------------------------------------------------------------------- Next
\* Sequences over S of length at most n.
SeqMax(S, n) == UNION {[1..k -> S] : k \in 0..n}

Next ==
    \/ \E span \in UnJour :
          /\ Len(dependances) < MaxObjets
          /\ Tache(span, <<>>)
    \/ \E s \in Strategies : set_notification_strategy(s)
    \/ \E t \in Objets :
          /\ Len(taches) < MaxTaches
          /\ ajouter_tache(t)
    \/ \E m \in Membres :
          /\ Len(membres) < MaxMembres
          /\ ajouter_membre_equipe(m)
    \/ \E b \in Budgets : definir_budget(b)
    \/ \E r \in Risques :
          /\ Len(risques) < MaxRisques
          /\ ajouter_risque(r)
    \/ \E j \in Jalons :
          /\ Len(jalons) < MaxJalons
          /\ ajouter_jalon(j)
    \/ \E d \in Descriptions :
          /\ Len(changements) < MaxChangements
          /\ enregistrer_changement(d)
    \/ calculer_chemin_critique

Spec == Init /\ [][Next]_vars

NextCalcul ==
    \/ \E span \in UnJour, deps \in SeqMax(Objets, 1) :
          /\ Len(dependances) < CalculMaxObjets
          /\ Tache(span, deps)
    \/ \E s \in Strategies : set_notification_strategy(s)
    \/ \E t \in Objets :
          /\ Len(taches) < CalculMaxTaches
          /\ ajouter_tache(t)
    \/ \E m \in Membres :
          /\ Len(membres) < MaxMembres
          /\ ajouter_membre_equipe(m)
    \/ \E d \in Descriptions :
          /\ Len(changements) < MaxChangements
          /\ enregistrer_changement(d)
    \/ calculer_chemin_critique

SpecCalcul == Init /\ [][NextCalcul]_vars

NextGraphe ==
    \/ \E span \in Spans, deps \in SeqMax(Objets, GrapheMaxDeps) :
          /\ Len(dependances) < GrapheMaxObjets
          /\ Tache(span, deps)
    \/ \E t \in Objets, d \in Objets :
          /\ Len(dependances[t]) < GrapheMaxDeps
          /\ ajouter_dependance(t, d)
    \/ \E t \in Objets :
          /\ Len(taches) < GrapheMaxTaches
          /\ ajouter_tache(t)
    \/ calculer_chemin_critique

SpecGraphe == Init /\ [][NextGraphe]_vars

\* ================================================================ claims
Range(seq) == {seq[i] : i \in DOMAIN seq}
Dernier(seq) == seq[Len(seq)]
Maximum(S) == CHOOSE m \in S : \A x \in S : x <= m

\* Tasks reachable from the tasks of S through dependances (S included).
RECURSIVE Fermeture(_)
Fermeture(S) ==
    LET N == S \cup UNION {Range(dependances[t]) : t \in S}
    IN  IF N = S THEN S ELSE Fermeture(N)

SurUnCycle(u) == u \in Fermeture(Range(dependances[u]))
CycleAtteignable == \E u \in Fermeture(Range(taches)) : SurUnCycle(u)

\* total_duration as the specification defines it: the task's own days plus
\* the largest total_duration of its direct predecessors.
RECURSIVE DureeTotale(_)
DureeTotale(t) ==
    IF dependances[t] = <<>> THEN Jours(t)
    ELSE Jours(t) + Maximum({DureeTotale(d) : d \in Range(dependances[t])})

\* The first task of the task list whose total_duration is the largest.
PremierMaximal ==
    taches[CHOOSE i \in 1..Len(taches) :
              /\ \A j \in 1..Len(taches) : DureeTotale(taches[j]) <= DureeTotale(taches[i])
              /\ \A j \in 1..(i - 1) : DureeTotale(taches[j]) < DureeTotale(taches[i])]

\* taches is a linear chain: no predecessor for the first task, the previous
\* task as only predecessor for every later one, at least one day each.
ChaineLineaire ==
    /\ taches # <<>>
    /\ Cardinality(Range(taches)) = Len(taches)
    /\ dependances[taches[1]] = <<>>
    /\ \A i \in 2..Len(taches) : dependances[taches[i]] = <<taches[i - 1]>>
    /\ \A i \in 1..Len(taches) : Jours(taches[i]) >= 1

\* C1: on a linear chain of tasks (first without predecessor, each later one
\* with the previous task as its only predecessor, one day or more each),
\* calculer_chemin_critique caches the whole chain in dependency order.
C1_ChaineEntiere ==
    [][(calculer_chemin_critique /\ ChaineLineaire)
         => (exception' = None /\ chemin_critique' = taches)]_vars

\* C2: on a non-empty acyclic task list the cached path ends at the first
\* listed task whose total_duration (own days plus the largest total of its
\* predecessors, own days for a task without predecessors) is the largest.
C2_FinitAuPremierMaximal ==
    [][(calculer_chemin_critique /\ taches # <<>> /\ ~CycleAtteignable)
         => /\ exception' = None
            /\ chemin_critique' # <<>>
            /\ Dernier(chemin_critique') = PremierMaximal]_vars

\* What find_longest_path returns for one task, from an empty memo table.
LongueurCalculee(t) == find_longest_path(t, <<>>, {}).res[1]
CheminCalcule(t)    == find_longest_path(t, <<>>, {}).res[2]

\* The first predecessor of t whose computed length is the largest.
Gagnant(t) ==
    LET deps == dependances[t]
    IN  deps[CHOOSE i \in 1..Len(deps) :
               /\ \A j \in 1..Len(deps) : LongueurCalculee(deps[j]) <= LongueurCalculee(deps[i])
               /\ \A j \in 1..(i - 1) : LongueurCalculee(deps[j]) < LongueurCalculee(deps[i])]

\* C3: the path computed for a task with predecessors is the path of its
\* winning predecessor (the first one of largest total) followed by the task
\* itself; the predecessor is never left out.  Stated of the task the cached
\* path ends at.
C3_CheminDuGagnant ==
    [][(calculer_chemin_critique /\ exception' = None /\ chemin_critique' # <<>>)
         => LET t == Dernier(chemin_critique')
            IN  dependances[t] # <<>>
                  => chemin_critique' = Append(CheminCalcule(Gagnant(t)), t)]_vars

\* C4: calculer_chemin_critique on an empty task list completes without
\* failure and leaves the cached critical path empty.
C4_ListeVide ==
    [][(calculer_chemin_critique /\ taches = <<>>)
         => (exception' = None /\ chemin_critique' = <<>>)]_vars

\* C10: calculer_chemin_critique completes normally and writes the cache
\* exactly when no listed task reaches a cycle through dependances; with a
\* reachable cycle it never completes and the cache keeps its value.
C10_TermineSsiAcyclique ==
    [][calculer_chemin_critique
         => /\ (exception' = None) <=> ~CycleAtteignable
            /\ CycleAtteignable => chemin_critique' = chemin_critique]_vars

\* The part of C10 about the recursion alone.
RecursionSsiCycle ==
    [][calculer_chemin_critique
         => /\ (exception' = "RecursionError") <=> CycleAtteignable
            /\ CycleAtteignable => chemin_critique' = chemin_critique]_vars

\* ------------------------------------------------- aggregate, notifications
\* c2 is c with exactly one element added at the end.
AjoutEnFin(c, c2) == Len(c2) = Len(c) + 1 /\ SubSeq(c2, 1, Len(c)) = c

\* The version counter and the change log agree.
VersionsEnOrdre(v, log) ==
    /\ v = Len(log) + 1
    /\ \A i \in 1..Len(log) : log[i].version = i

\* C5: enregistrer_changement stamps the new Changement with the version
\* before the call, appends it, increments the counter by one and announces
\* the incremented value; so the counter is the number of changes plus one,
\* the i-th change has version i, and no other call changes the counter.
C5_VersionEtChangements ==
    /\ VersionsEnOrdre(version, changements)
    /\ [][/\ VersionsEnOrdre(version', changements')
          /\ \A d \in Descriptions : enregistrer_changement(d) =>
                /\ AjoutEnFin(changements, changements')
                /\ Dernier(changements') = [description |-> d, version |-> version]
                /\ version' = version + 1
                /\ \A i \in 1..Len(sortie') :
                      /\ sortie'[i].message.type = "changement"
                      /\ sortie'[i].message.version = Dernier(changements').version + 1
          /\ changements' = changements => version' = version]_vars

C5_Temoin ==
    /\ Len(changements) = 2
    /\ version = 3
    /\ Len(sortie) = 2
    /\ sortie[1].message.type = "changement"
    /\ sortie[1].message.version = 3

\* A step of one of the six mutating operations.
Mutation ==
    \/ \E t \in Objets : ajouter_tache(t)
    \/ \E m \in Membres : ajouter_membre_equipe(m)
    \/ \E b \in Budgets : definir_budget(b)
    \/ \E r \in Risques : ajouter_risque(r)
    \/ \E j \in Jalons : ajouter_jalon(j)
    \/ \E d \in Descriptions : enregistrer_changement(d)

\* C6: once a strategy is bound, each mutating operation makes exactly one
\* envoyer_message call per entry of the member list as it is after the
\* mutation, in list order, on the strategy bound last and with one message;
\* ajouter_membre_equipe(m) delivers to m too, as the last recipient.
C6_UnEnvoiParMembre ==
    [][(notification_context # None /\ Mutation)
         => /\ Len(sortie') = Len(membres')
            /\ \A i \in 1..Len(sortie') :
                  /\ sortie'[i].destinataire = membres'[i]
                  /\ sortie'[i].strategy = notification_context
                  /\ sortie'[i].message = sortie'[1].message
            /\ \A m \in Membres : ajouter_membre_equipe(m) =>
                  Dernier(sortie').destinataire = m]_vars

C6_Temoin ==
    /\ notification_context # None
    /\ Len(membres) = 2
    /\ membres[1] # membres[2]
    /\ Len(sortie) = 2
    /\ sortie[1].message.type = "membre"
    /\ sortie[2].message.membre = membres[2]
    /\ sortie[2].destinataire = membres[2]

\* C7: as long as set_notification_strategy was never called no
\* envoyer_message call is made, and every mutating operation still applies
\* its change and completes without error.
C7_SansStrategie ==
    /\ sortie = <<>>
    /\ [][notification_context = None
            => /\ sortie' = <<>>
               /\ Mutation => exception' = None
               /\ \A t \in Objets : ajouter_tache(t) => Dernier(taches') = t
               /\ \A m \in Membres : ajouter_membre_equipe(m) => Dernier(membres') = m
               /\ \A b \in Budgets : definir_budget(b) => budget' = b
               /\ \A r \in Risques : ajouter_risque(r) => Dernier(risques') = r
               /\ \A j \in Jalons : ajouter_jalon(j) => Dernier(jalons') = j
               /\ \A d \in Descriptions : enregistrer_changement(d) =>
                     Dernier(changements').description = d]_vars

C7_Temoin ==
    /\ notification_context = None
    /\ taches # <<>>
    /\ Len(membres) = 2
    /\ risques # <<>>
    /\ jalons # <<>>
    /\ changements # <<>>
    /\ budget # 0
    /\ sortie = <<>>
    /\ exception = None

\* p is a dependency chain without repetition that ends at a listed task.
ChaineVersUneTache(p) ==
    /\ p # <<>>
    /\ Cardinality(Range(p)) = Len(p)
    /\ Dernier(p) \in Range(taches)
    /\ \A i \in 1..(Len(p) - 1) : p[i] \in Range(dependances[p[i + 1]])

\* C8: calculer_chemin_critique makes no envoyer_message call, even with a
\* strategy bound and members present, and changes nothing but the cached
\* critical path, which it replaces as a whole by the path it computed.
C8_SeulLeCheminChange ==
    [][calculer_chemin_critique
         => /\ sortie' = <<>>
            /\ UNCHANGED <<tas, taches, membres, risques, jalons, budget,
                           version, changements, notification_context>>
            /\ exception' = None => ChaineVersUneTache(chemin_critique')
            /\ exception' # None => chemin_critique' = chemin_critique]_vars

C8_Temoin ==
    /\ notification_context # None
    /\ membres # <<>>
    /\ changements # <<>>
    /\ Len(taches) = 2
    /\ taches[1] # taches[2]
    /\ chemin_critique = <<taches[2]>>
    /\ sortie = <<>>
    /\ exception = None

\* C9: tasks, members, risks, milestones and changes are append-only: each
\* add operation puts exactly one new element at the end of its own
\* collection and leaves its earlier elements and the other collections
\* unchanged, and no step removes or reorders an element.
C9_AjoutSeulement ==
    [][/\ taches' = taches \/ AjoutEnFin(taches, taches')
       /\ membres' = membres \/ AjoutEnFin(membres, membres')
       /\ risques' = risques \/ AjoutEnFin(risques, risques')
       /\ jalons' = jalons \/ AjoutEnFin(jalons, jalons')
       /\ changements' = changements \/ AjoutEnFin(changements, changements')
       /\ \A t \in Objets : ajouter_tache(t) =>
             /\ AjoutEnFin(taches, taches') /\ Dernier(taches') = t
             /\ UNCHANGED <<membres, risques, jalons, changements>>
       /\ \A m \in Membres : ajouter_membre_equipe(m) =>
             /\ AjoutEnFin(membres, membres') /\ Dernier(membres') = m
             /\ UNCHANGED <<taches, risques, jalons, changements>>
       /\ \A r \in Risques : ajouter_risque(r) =>
             /\ AjoutEnFin(risques, risques') /\ Dernier(risques') = r
             /\ UNCHANGED <<taches, membres, jalons, changements>>
       /\ \A j \in Jalons : ajouter_jalon(j) =>
             /\ AjoutEnFin(jalons, jalons') /\ Dernier(jalons') = j
             /\ UNCHANGED <<taches, membres, risques, changements>>
       /\ \A d \in Descriptions : enregistrer_changement(d) =>
             /\ AjoutEnFin(changements, changements')
             /\ Dernier(changements').description = d
             /\ UNCHANGED <<taches, membres, risques, jalons>>]_vars

C9_Temoin ==
    /\ Len(taches) = 2
    /\ Len(membres) = 2
    /\ membres[1] # membres[2]
    /\ Len(risques) = 2
    /\ Len(jalons) = 2
    /\ Len(changements) = 2

====
